---------------------------- MODULE Spec2Model ----------------------------
(***************************************************************************)
(* Model of the @Transactional method wrapper of typeorm-transactional     *)
(* (src/src/decorators/transactional.ts).                                  *)
(*                                                                         *)
(* A logical call chain is a stack of wrapped invocations above an         *)
(* unwrapped root caller.  Every await of the wrapper is an action, so     *)
(* that chains interleave at the suspension points of the code.  An        *)
(* AsyncLocalStorage binds its store to the asynchronous continuation: the *)
(* model keeps, with every invocation, the context its body runs in        *)
(* (field ctx, one slot per AsyncLocalStorage instance).                   *)
(*                                                                         *)
(* dataSource.transaction(fn) is TypeORM's: start a transaction, run       *)
(* fn(manager), commit when fn resolves, roll back and rethrow when it     *)
(* rejects.  Each of its awaits is an action of the invocation.            *)
(***************************************************************************)
EXTENDS Naturals, Sequences, FiniteSets, TLC

\* Bounds of the model: the wrapper invocations of one behaviour, in an
\* application of one chain and one DataSource (MaxInvocations) and in one of
\* two chains or two DataSources (MaxInvocationsMulti).
MaxInvocations == 3
MaxInvocationsMulti == 2

Chains == {"c1", "c2"}

\* Two DataSource objects, and the missing dataSource property of a service.
DataSources == {"dsA", "dsB"}
NoDataSource == "undefined"

\* dataSource.options.type (test-db.ts declares a sqlite DataSource).
DbType(ds) == IF ds = "dsA" THEN "sqlite" ELSE "postgres"

IsolationLevels ==
  {"READ UNCOMMITTED", "READ COMMITTED", "REPEATABLE READ", "SERIALIZABLE"}
NoLevel == "undefined"

Propagations == {"REQUIRED", "REQUIRES_NEW"}

\* @Transactional() without a propagation option.
NoPropagation == "undefined"

\* AsyncLocalStorage instances are objects; they are numbered as created.
StoreIds == 1 .. Cardinality(DataSources)

\* context.getStore() of a context with no store: undefined.
NoContextData == [manager |-> 0, dataSource |-> NoDataSource]

\* The asynchronous context of code that no context.run() encloses.
RootCtx == [s \in StoreIds |-> NoContextData]

NoOutcome == [kind |-> "none", val |-> "none", from |-> 0]

\* The invocation began no transaction.
NoTx == [ds |-> NoDataSource, state |-> "none", isolation |-> NoLevel,
         failed |-> {}]

\* The error a failing startTransaction, commitTransaction or
\* rollbackTransaction of invocation i's query runner throws.
BackendError(i, op) == [kind |-> "err", val |-> op, from |-> i]

\* The outcomes of a backend operation: it succeeds, or it throws.
BackendOutcomes == {"ok", "fail"}

VARIABLES
  transactionContexts,  \* the WeakMap: DataSource -> AsyncLocalStorage (0: none)
  inv,                  \* every wrapper invocation made so far, by number
  stack,                \* per chain: the invocations that have not returned
  txs,                  \* per invocation: the backend transaction it began
  writes,               \* the save() calls issued so far
  rootCtx,              \* per chain: the context of its unwrapped root caller
  app                   \* the application: its chains, the dataSource of each
                        \* of its services, the options its methods declare

vars == <<transactionContexts, inv, stack, txs, writes, rootCtx, app>>
-----------------------------------------------------------------------------
(* AsyncLocalStorage *)

\* context.getStore() evaluated in asynchronous context ctx.
\* A store kept in one module-level variable instead of the async context:
\* every chain reads what the latest running context.run callback stored.
AlsGetStoreShared(ctx, s) ==
  LET running == {i \in 1 .. Len(inv) : inv[i].mode = "new" /\ inv[i].pc = "body"}
  IN  IF running = {} THEN ctx[s]
      ELSE inv[CHOOSE i \in running : \A j \in running : j <= i].ctx[s]

AlsGetStore(ctx, s) == ctx[s]

\* Faulty variant: the store is not activated for the callback.
AlsRunNoStore(ctx, s, data) == ctx

\* context.run(data, cb): the context cb and all its continuations run in.
\* Faulty variant: a store that is already set is not replaced.
AlsRunKeepsOuter(ctx, s, data) ==
  IF ctx[s] # NoContextData THEN ctx ELSE [ctx EXCEPT ![s] = data]

AlsRun(ctx, s, data) == [ctx EXCEPT ![s] = data]

\* Faulty variant: enterWith() semantics, the store stays set for the caller.
AlsRunExitLeaks(outerCtx, innerCtx) == innerCtx

\* context.run(data, cb) seen from outside: the code that awaits it goes on in
\* the context it called run() in, not in cb's.
AlsRunExit(outerCtx, innerCtx) == outerCtx

(* The registry *)

\* Faulty variant: a module-level AsyncLocalStorage is registered for every
\* DataSource instead of a new one.
NewStoreIdShared(reg) == 1

NewStoreId(reg) == Cardinality({d \in DataSources : reg[d] # 0}) + 1

\* The AsyncLocalStorage getOrCreateTransactionContext(dataSource) returns.
\* Faulty variant: no lookup in the WeakMap, every call makes a new
\* AsyncLocalStorage and registers it in place of the previous one.
getOrCreateAlwaysNew(reg, ds) == IF reg[ds] = 1 THEN 2 ELSE 1

\* One AsyncLocalStorage shared by every DataSource.
getOrCreateSharedContext(reg, ds) == 1

getOrCreateTransactionContext(reg, ds) ==
  IF reg[ds] # 0 THEN reg[ds] ELSE NewStoreId(reg)

\* The WeakMap after getOrCreateTransactionContext(dataSource).
RegistryAfter(reg, ds) ==
  [reg EXCEPT ![ds] = getOrCreateTransactionContext(reg, ds)]

(* Isolation *)

\* Faulty variant: the requested level is passed on whatever the database.
getSupportedIsolationLevelAsIs(ds, requestedLevel) == requestedLevel

\* Faulty variant: sqlite falls back to the other level it supports.
getSupportedIsolationLevelWeakest(ds, requestedLevel) ==
  IF requestedLevel = NoLevel THEN NoLevel
  ELSE IF DbType(ds) = "sqlite"
       THEN IF requestedLevel \in {"READ UNCOMMITTED", "SERIALIZABLE"}
            THEN requestedLevel ELSE "READ UNCOMMITTED"
       ELSE requestedLevel

getSupportedIsolationLevel(ds, requestedLevel) ==
  IF requestedLevel = NoLevel THEN NoLevel
  ELSE IF DbType(ds) = "sqlite"
       THEN IF requestedLevel \in {"READ UNCOMMITTED", "SERIALIZABLE"}
            THEN requestedLevel
            ELSE "SERIALIZABLE"
       ELSE requestedLevel

(* The wrapper's decisions *)

\* Faulty variant: the existing transaction is never joined.
ShouldJoinNever(existingContext, propagation) == FALSE

\* Faulty variant: the propagation option is not looked at.
ShouldJoinIgnoringPropagation(existingContext, propagation) ==
  existingContext # NoContextData

\* Line 88: join the existing transaction?
ShouldJoin(existingContext, propagation) ==
  existingContext # NoContextData /\ propagation # "REQUIRES_NEW"

\* Line 100: the store executeTransaction activates.
ContextData(manager, ds) == [manager |-> manager, dataSource |-> ds]

\* Faulty variant: the operation's error is wrapped in an error of the wrapper.
executeTransactionWrapsError(bodyOutcome) ==
  IF bodyOutcome.kind = "err"
  THEN [bodyOutcome EXCEPT !.val = "TransactionError"]
  ELSE bodyOutcome

\* Faulty variant: a missing return, the operation's result is dropped.
executeTransactionDropsResult(bodyOutcome) ==
  IF bodyOutcome.kind = "ok"
  THEN [bodyOutcome EXCEPT !.val = "undefined"]
  ELSE bodyOutcome

\* What the wrapper's promise settles with, given how originalMethod settled:
\* every return of the wrapper is "return await", nothing is caught.
executeTransaction(bodyOutcome) == bodyOutcome

(* Accessors *)

\* Faulty variant: without a dataSource argument the function falls back to
\* whatever transaction is active in the calling context.
getCurrentTransactionManagerFallback(reg, ctx, ds) ==
  IF ds = NoDataSource
  THEN LET active == {s \in StoreIds : ctx[s] # NoContextData}
       IN  IF active = {} THEN 0
           ELSE ctx[CHOOSE s \in active : \A t \in active : s <= t].manager
  ELSE LET contextData ==
             AlsGetStore(ctx, getOrCreateTransactionContext(reg, ds))
       IN  IF contextData # NoContextData THEN contextData.manager ELSE 0

getCurrentTransactionManager(reg, ctx, ds) ==
  IF ds = NoDataSource THEN 0
  ELSE LET contextData == AlsGetStore(ctx, getOrCreateTransactionContext(reg, ds))
       IN  IF contextData # NoContextData THEN contextData.manager ELSE 0

\* An EntityManager: a transaction's (tx > 0) or dataSource.manager (tx = 0).
Manager(ds, tx) == [ds |-> ds, tx |-> tx]

\* Faulty variant: the transaction's manager is ignored.
getManagerDefault(reg, ctx, ds) == Manager(ds, 0)

getManager(reg, ctx, ds) ==
  LET manager == getCurrentTransactionManager(reg, ctx, ds)
  IN  IF manager # 0 THEN Manager(ds, manager) ELSE Manager(ds, 0)
-----------------------------------------------------------------------------
(* The state of a chain *)

Top(c) == stack[c][Len(stack[c])]

\* The code of chain c that runs now is user code: the unwrapped root caller,
\* or the body of the innermost invocation.
InUserCode(c) == IF stack[c] = <<>> THEN TRUE ELSE inv[Top(c)].pc = "body"

\* The asynchronous context that user code runs in.
CurrentCtx(c) == IF stack[c] = <<>> THEN rootCtx[c] ELSE inv[Top(c)].ctx

Caller(c) == IF stack[c] = <<>> THEN 0 ELSE Top(c)

Start ==
  /\ transactionContexts = [d \in DataSources |-> 0]
  /\ inv = <<>>
  /\ stack = [c \in Chains |-> <<>>]
  /\ txs = <<>>
  /\ writes = {}
  /\ rootCtx = [c \in Chains |-> RootCtx]

\* One chain, services on one DataSource.
Init ==
  /\ Start
  /\ app = [chains |-> {"c1"}, services |-> {"dsA"},
            options |-> [propagation : Propagations, isolation : {NoLevel}],
            plainSaves |-> {"dsA"}, backend |-> {"ok"}, errors |-> {"error"},
            detached |-> FALSE,
            invocations |-> MaxInvocations]
-----------------------------------------------------------------------------
(* The wrapper, lines 74-109 *)

\* Faulty variant: originalMethod is started detached from the caller's
\* asynchronous context.
NewInvocationDetached(c, ds, options) ==
  [chain |-> c, parent |-> Caller(c), ds |-> ds,
   propagation |-> options.propagation, isolation |-> options.isolation,
   mode |-> "none", pc |-> "return", ctx |-> RootCtx,
   existing |-> NoContextData, tx |-> 0, isolationLevel |-> NoLevel,
   body |-> NoOutcome, caught |-> NoOutcome, result |-> NoOutcome]

NewInvocation(c, ds, options) ==
  [chain |-> c, parent |-> Caller(c), ds |-> ds,
   propagation |-> options.propagation, isolation |-> options.isolation,
   mode |-> "none", pc |-> "return", ctx |-> CurrentCtx(c),
   existing |-> NoContextData, tx |-> 0, isolationLevel |-> NoLevel,
   body |-> NoOutcome, caught |-> NoOutcome, result |-> NoOutcome]

\* Faulty variant: the missing dataSource is only reported and the
\* original method is called all the same.
ConfigErrorRunsBody(base, i) ==
  [base EXCEPT !.mode = "config_error", !.pc = "body"]

\* Lines 78-82: throw new Error(`DataSource not found in ...`), which rejects
\* the promise of the async wrapper.
ConfigError(base, i) ==
  [base EXCEPT !.mode = "config_error",
     !.result = [kind |-> "err", val |-> "DataSourceNotFound", from |-> i]]

\* Lines 76-96 and 106-108, up to the first await. Without dataSource the
\* async wrapper rejects; the join path calls originalMethod; the other path
\* calls dataSource.transaction.
Call(c, ds) ==
  /\ InUserCode(c)
  /\ Len(inv) < app.invocations
  /\ \E options \in app.options :
       LET i == Len(inv) + 1
           context == getOrCreateTransactionContext(transactionContexts, ds)
           existingContext == AlsGetStore(CurrentCtx(c), context)
           base == NewInvocation(c, ds, options)
       IN  /\ inv' = Append(inv,
                IF ds = NoDataSource
                THEN ConfigError(base, i)
                ELSE IF ShouldJoin(existingContext, options.propagation)
                THEN [base EXCEPT !.existing = existingContext,
                        !.mode = "join", !.pc = "body"]
                ELSE [base EXCEPT !.existing = existingContext,
                        !.mode = "new", !.pc = "begin",
                        !.isolationLevel =
                           getSupportedIsolationLevel(ds, options.isolation)])
           /\ stack' = [stack EXCEPT ![c] = Append(@, i)]
  /\ transactionContexts' =
       IF ds = NoDataSource THEN transactionContexts
       ELSE RegistryAfter(transactionContexts, ds)
  /\ txs' = Append(txs, NoTx)
  /\ UNCHANGED <<writes, rootCtx, app>>

\* Lines 106-108: what the wrapper returns is what dataSource.transaction
\* settled with.
ReturnAwaitWrapsError(outcome) ==
  IF outcome.kind = "err" THEN [outcome EXCEPT !.val = "TransactionError"]
  ELSE outcome

ReturnAwait(outcome) == outcome

\* Faulty variant: the level of the options is passed to
\* dataSource.transaction as it was requested.
StartLevelRequested(i) == inv[i].isolation

\* Lines 106-108: the level dataSource.transaction is called with, none
\* (the database's default) when isolationLevel is undefined.
StartLevel(i) ==
  IF inv[i].isolationLevel # NoLevel THEN inv[i].isolationLevel ELSE NoLevel

\* Faulty variant: executeTransaction is called although the transaction
\* could not be started.
StartFailedRunsCallback(i, context) ==
  [inv[i] EXCEPT !.tx = i, !.pc = "body",
                 !.ctx = AlsRun(@, context, ContextData(i, inv[i].ds))]

\* Lines 106-108 when starting the transaction fails: dataSource.transaction
\* rejects with the error without having called executeTransaction.
StartFailed(i, context) ==
  [inv[i] EXCEPT !.pc = "return",
                 !.caught = BackendError(i, "begin"),
                 !.result = ReturnAwait(BackendError(i, "begin"))]

\* dataSource.transaction: the transaction is started, then lines 98-103:
\* executeTransaction(manager) runs originalMethod inside context.run. When
\* starting the transaction fails, executeTransaction is never called and
\* dataSource.transaction rejects with that error.
BeginTransaction(c) ==
  /\ stack[c] # <<>>
  /\ inv[Top(c)].pc = "begin"
  /\ \E backend \in app.backend :
       LET i == Top(c)
           context == getOrCreateTransactionContext(transactionContexts, inv[i].ds)
       IN  IF backend = "ok"
           THEN /\ txs' = [txs EXCEPT ![i] = [ds |-> inv[i].ds, state |-> "open",
                                              isolation |-> StartLevel(i),
                                              failed |-> {}]]
                /\ inv' = [inv EXCEPT ![i].tx = i, ![i].pc = "body",
                             ![i].ctx = AlsRun(@, context, ContextData(i, inv[i].ds))]
           ELSE /\ txs' = [txs EXCEPT ![i] = [ds |-> inv[i].ds, state |-> "failed",
                                              isolation |-> StartLevel(i),
                                              failed |-> {"begin"}]]
                /\ inv' = [inv EXCEPT ![i] = StartFailed(i, context)]
  /\ UNCHANGED <<transactionContexts, stack, writes, rootCtx, app>>

\* Faulty variant: a rejected callback settles the wrapper without ending
\* the transaction.
AfterBodyLeavesOpen(i, outcome) ==
  IF inv[i].mode = "new" /\ outcome.kind = "ok"
  THEN [inv EXCEPT ![i].body = outcome, ![i].pc = "commit"]
  ELSE [inv EXCEPT ![i].body = outcome, ![i].pc = "return",
                   ![i].result = outcome]

\* Faulty variant: a transaction whose callback rejected is started again.
AfterBodyRetries(i, outcome) ==
  IF inv[i].mode = "new"
  THEN [inv EXCEPT ![i].body = outcome,
                   ![i].pc = IF outcome.kind = "ok" THEN "commit" ELSE "begin"]
  ELSE [inv EXCEPT ![i].body = outcome, ![i].pc = "return",
                   ![i].result = outcome]

\* Faulty variant: a joined call that fails rolls back the transaction it
\* joined before it rethrows.
AfterBodyJoinRollsBack(i, outcome) ==
  IF inv[i].mode = "new"
  THEN [inv EXCEPT ![i].body = outcome,
                   ![i].pc = IF outcome.kind = "ok" THEN "commit" ELSE "rollback"]
  ELSE IF inv[i].mode = "join" /\ outcome.kind = "err"
  THEN [inv EXCEPT ![i].body = outcome, ![i].pc = "rollback",
                   ![i].tx = inv[i].existing.manager]
  ELSE [inv EXCEPT ![i].body = outcome, ![i].pc = "return",
                   ![i].result = outcome]

\* The settled wrapper: the join path settles as originalMethod did; the other
\* path first lets dataSource.transaction end the transaction.
AfterBody(i, outcome) ==
  IF inv[i].mode = "new"
  THEN [inv EXCEPT ![i].body = outcome,
                   ![i].pc = IF outcome.kind = "ok" THEN "commit" ELSE "rollback"]
  ELSE [inv EXCEPT ![i].body = outcome, ![i].pc = "return",
                   ![i].result = outcome]

\* originalMethod resolves.
BodyReturn(c) ==
  /\ stack[c] # <<>>
  /\ inv[Top(c)].pc = "body"
  /\ inv' = AfterBody(Top(c), [kind |-> "ok", val |-> "result", from |-> Top(c)])
  /\ UNCHANGED <<transactionContexts, stack, txs, writes, rootCtx, app>>

\* originalMethod throws an error of its own: an error of the operation, or
\* the AbortError with which an awaited operation rejects when the request
\* it works for is aborted.
BodyThrow(c) ==
  /\ stack[c] # <<>>
  /\ inv[Top(c)].pc = "body"
  /\ \E val \in app.errors :
       inv' = AfterBody(Top(c), [kind |-> "err", val |-> val, from |-> Top(c)])
  /\ UNCHANGED <<transactionContexts, stack, txs, writes, rootCtx, app>>

\* dataSource.transaction after fn resolved: commit, then resolve with fn's
\* result. A failing commit is an error of the transaction: it is caught,
\* the transaction is rolled back and the error rethrown.
CommitTransaction(c) ==
  /\ stack[c] # <<>>
  /\ inv[Top(c)].pc = "commit"
  /\ \E backend \in app.backend :
       LET i == Top(c)
       IN  IF backend = "ok"
           THEN /\ txs' = [txs EXCEPT ![inv[i].tx].state = "committed"]
                /\ inv' = [inv EXCEPT ![i].pc = "return",
                             ![i].result = ReturnAwait(executeTransaction(inv[i].body))]
           ELSE /\ txs' = [txs EXCEPT ![inv[i].tx].failed = @ \cup {"commit"}]
                /\ inv' = [inv EXCEPT ![i].pc = "rollback",
                             ![i].caught = BackendError(i, "commit")]
  /\ UNCHANGED <<transactionContexts, stack, writes, rootCtx, app>>

\* The error dataSource.transaction has caught when it rolls back: the
\* rejection of fn, or the error of the commit.
Caught(i) ==
  IF inv[i].caught # NoOutcome THEN inv[i].caught
  ELSE executeTransaction(inv[i].body)

\* dataSource.transaction after fn rejected: roll back, then rethrow the
\* caught error. When the rollback itself fails the transaction is left as
\* it is and dataSource.transaction rejects with one of the two errors, the
\* caught one or the rollback's: the library decides, not the wrapper.
RollbackTransaction(c) ==
  /\ stack[c] # <<>>
  /\ inv[Top(c)].pc = "rollback"
  /\ \E backend \in app.backend :
       LET i == Top(c)
       IN  IF backend = "ok"
           THEN /\ txs' = [txs EXCEPT ![inv[i].tx].state = "rolledback"]
                /\ inv' = [inv EXCEPT ![i].pc = "return",
                             ![i].result = ReturnAwait(Caught(i))]
           ELSE /\ txs' = [txs EXCEPT ![inv[i].tx].state = "broken",
                                      ![inv[i].tx].failed = @ \cup {"rollback"}]
                /\ \E rejection \in {Caught(i), BackendError(i, "rollback")} :
                     inv' = [inv EXCEPT ![i].pc = "return",
                               ![i].result = ReturnAwait(rejection)]
  /\ UNCHANGED <<transactionContexts, stack, writes, rootCtx, app>>

Pop(s) == SubSeq(s, 1, Len(s) - 1)

\* Faulty variant: the caller goes on in the context of the callee's body.
CallerCtxAfterKeeps(i, callerCtx) == inv[i].ctx

\* The context the caller of invocation i goes on in when i has settled: an
\* invocation that called context.run leaves it through run's exit.
CallerCtxAfter(i, callerCtx) ==
  IF inv[i].mode = "new" THEN AlsRunExit(callerCtx, inv[i].ctx) ELSE callerCtx

\* The wrapper's promise settles and the caller goes on: with the result, or
\* having caught the error (the root caller has no wrapper to reject).
Return(c) ==
  /\ stack[c] # <<>>
  /\ inv[Top(c)].pc = "return"
  /\ LET i == Top(c)
         p == inv[i].parent
     IN  IF p = 0
         THEN /\ inv' = [inv EXCEPT ![i].pc = "done"]
              /\ rootCtx' = [rootCtx EXCEPT ![c] = CallerCtxAfter(i, @)]
         ELSE /\ inv' = [inv EXCEPT ![i].pc = "done",
                                    ![p].ctx = CallerCtxAfter(i, @)]
              /\ UNCHANGED rootCtx
  /\ stack' = [stack EXCEPT ![c] = Pop(@)]
  /\ UNCHANGED <<transactionContexts, txs, writes, app>>

\* The wrapper's promise rejects and the awaiting body does not catch: the
\* calling originalMethod rejects with the same error.
ReturnThrow(c) ==
  /\ Len(stack[c]) >= 2
  /\ inv[Top(c)].pc = "return"
  /\ inv[Top(c)].result.kind = "err"
  /\ LET i == Top(c)
         p == inv[i].parent
     IN  inv' = [AfterBody(p, inv[i].result) EXCEPT
                   ![i].pc = "done", ![p].ctx = CallerCtxAfter(i, @)]
  /\ stack' = [stack EXCEPT ![c] = Pop(@)]
  /\ UNCHANGED <<transactionContexts, txs, writes, rootCtx, app>>
-----------------------------------------------------------------------------
(* Service code *)

\* The invocations of chain c whose body has started asynchronous work that
\* it does not await: the work runs on, at any time, in the asynchronous
\* context it was started in, that of the body.
Detached(c) ==
  IF app.detached
  THEN {i \in 1 .. Len(inv) :
          /\ inv[i].chain = c
          /\ inv[i].mode \in {"new", "join"}
          /\ inv[i].pc # "begin"
          /\ txs[i].state # "failed"}
  ELSE {}

\* The code of chain c that can issue a save to ds now: the running user
\* code (0: the unwrapped root caller), and the detached work.
Savers(c, ds) ==
  (IF InUserCode(c) /\ (Caller(c) = 0 => ds \in app.plainSaves)
   THEN {Caller(c)} ELSE {}) \cup Detached(c)

\* this.getRepository(Entity).save(entity), through getManager(), by a method
\* of a service bound to ds that the running code has called: the wrapped
\* method itself, or an unwrapped method such as performSignup. The save
\* records whether the manager it got belongs to a transaction that is no
\* longer open.
Save(c, ds) ==
  /\ \E by \in Savers(c, ds) :
       LET ctx == IF by = 0 THEN rootCtx[c] ELSE inv[by].ctx
           manager == getManager(transactionContexts, ctx, ds)
           w == [by |-> by, chain |-> c, ds |-> ds, via |-> manager.tx,
                 stale |-> manager.tx # 0 /\ txs[manager.tx].state # "open"]
       IN  /\ w \notin writes
           /\ writes' = writes \cup {w}
  /\ transactionContexts' = RegistryAfter(transactionContexts, ds)
  /\ UNCHANGED <<inv, stack, txs, rootCtx, app>>

\* getCurrentTransactionManager(dataSource) called by code outside a service.
Lookup(c, ds) ==
  /\ InUserCode(c)
  /\ transactionContexts[ds] = 0
  /\ transactionContexts' = RegistryAfter(transactionContexts, ds)
  /\ UNCHANGED <<inv, stack, txs, writes, rootCtx, app>>

Next ==
  \/ \E c \in app.chains, ds \in app.services : Call(c, ds)
  \/ \E c \in app.chains : BeginTransaction(c)
  \/ \E c \in app.chains : BodyReturn(c)
  \/ \E c \in app.chains : BodyThrow(c)
  \/ \E c \in app.chains : CommitTransaction(c)
  \/ \E c \in app.chains : RollbackTransaction(c)
  \/ \E c \in app.chains : Return(c)
  \/ \E c \in app.chains : ReturnThrow(c)
  \/ \E c \in app.chains, ds \in app.services \ {NoDataSource} : Save(c, ds)
  \/ \E c \in app.chains, ds \in app.services \ {NoDataSource} : Lookup(c, ds)

Spec == Init /\ [][Next]_vars

\* Two chains, services on one DataSource.
InitChains ==
  /\ Start
  /\ app = [chains |-> {"c1", "c2"}, services |-> {"dsA"},
            options |-> [propagation : Propagations, isolation : {NoLevel}],
            plainSaves |-> {}, backend |-> {"ok"}, errors |-> {"error"},
            detached |-> FALSE,
            invocations |-> MaxInvocationsMulti]

SpecChains == InitChains /\ [][Next]_vars

\* One chain, services on two DataSources.
InitResources ==
  /\ Start
  /\ app = [chains |-> {"c1"}, services |-> {"dsA", "dsB"},
            options |-> [propagation : Propagations, isolation : {NoLevel}],
            plainSaves |-> {}, backend |-> {"ok"}, errors |-> {"error"},
            detached |-> FALSE,
            invocations |-> MaxInvocationsMulti]

SpecResources == InitResources /\ [][Next]_vars

\* One chain, a service on one DataSource and a service constructed without
\* its dataSource.
InitConfig ==
  /\ Start
  /\ app = [chains |-> {"c1"}, services |-> {"dsA", NoDataSource},
            options |-> [propagation : Propagations, isolation : {NoLevel}],
            plainSaves |-> {}, backend |-> {"ok"}, errors |-> {"error"},
            detached |-> FALSE,
            invocations |-> MaxInvocations]

SpecConfig == InitConfig /\ [][Next]_vars

\* One chain and an application whose services are on one DataSource, sqlite
\* or postgres, with methods declared with one isolation option: any of the
\* four levels, or none.
InitIsolation ==
  /\ Start
  /\ \E ds \in DataSources : \E requestedLevel \in IsolationLevels \cup {NoLevel} :
       app = [chains |-> {"c1"}, services |-> {ds},
              options |-> [propagation : Propagations,
                           isolation : {requestedLevel}],
              plainSaves |-> {}, backend |-> {"ok"}, errors |-> {"error"},
            detached |-> FALSE,
            invocations |-> MaxInvocationsMulti]

SpecIsolation == InitIsolation /\ [][Next]_vars

\* One chain and services on sqlite whose methods are declared with either
\* of the two levels sqlite supports.
InitJoinIsolation ==
  /\ Start
  /\ app = [chains |-> {"c1"}, services |-> {"dsA"},
            options |-> [propagation : Propagations,
                         isolation : {"READ UNCOMMITTED", "SERIALIZABLE"}],
            plainSaves |-> {}, backend |-> {"ok"}, errors |-> {"error"},
            detached |-> FALSE,
            invocations |-> MaxInvocationsMulti]

SpecJoinIsolation == InitJoinIsolation /\ [][Next]_vars

\* One chain, services on one DataSource whose startTransaction,
\* commitTransaction and rollbackTransaction may each fail.
InitBackend ==
  /\ Start
  /\ app = [chains |-> {"c1"}, services |-> {"dsA"},
            options |-> [propagation : Propagations, isolation : {NoLevel}],
            plainSaves |-> {}, backend |-> BackendOutcomes, errors |-> {"error"},
            detached |-> FALSE,
            invocations |-> MaxInvocationsMulti]

SpecBackend == InitBackend /\ [][Next]_vars

\* One chain, services on one DataSource, requests that may be aborted while
\* an operation is awaited, and backend operations that may fail.
InitCancel ==
  /\ Start
  /\ app = [chains |-> {"c1"}, services |-> {"dsA"},
            options |-> [propagation : Propagations, isolation : {NoLevel}],
            plainSaves |-> {}, backend |-> BackendOutcomes,
            errors |-> {"error", "AbortError"}, detached |-> FALSE,
            invocations |-> MaxInvocationsMulti]

SpecCancel == InitCancel /\ [][Next]_vars

\* One chain, services on one DataSource, bodies that start asynchronous
\* work without awaiting it.
InitDetached ==
  /\ Start
  /\ app = [chains |-> {"c1"}, services |-> {"dsA"},
            options |-> [propagation : Propagations, isolation : {NoLevel}],
            plainSaves |-> {}, backend |-> {"ok"}, errors |-> {"error"},
            detached |-> TRUE, invocations |-> MaxInvocationsMulti]

SpecDetached == InitDetached /\ [][Next]_vars

\* One chain, services on one DataSource whose methods are declared
\* @Transactional() or REQUIRED, and an unwrapped caller that saves too
\* (UserService.createUser, SignupService.signupWithoutTransaction).
InitDefault ==
  /\ Start
  /\ app = [chains |-> {"c1"}, services |-> {"dsA"},
            options |-> [propagation : {NoPropagation, "REQUIRED"},
                         isolation : {NoLevel}],
            plainSaves |-> {"dsA"}, backend |-> {"ok"}, errors |-> {"error"},
            detached |-> FALSE, invocations |-> MaxInvocations]

SpecDefault == InitDefault /\ [][Next]_vars

\* One chain, services on one DataSource, under the scheduling of the event
\* loop: a started dataSource.transaction goes on to run its callback and to
\* end the transaction, a settled promise resumes the code awaiting it, and
\* the operation bodies terminate.
InitLive ==
  /\ Start
  /\ app = [chains |-> {"c1"}, services |-> {"dsA"},
            options |-> [propagation : Propagations, isolation : {NoLevel}],
            plainSaves |-> {}, backend |-> {"ok"}, errors |-> {"error"},
            detached |-> FALSE,
            invocations |-> MaxInvocationsMulti]

BodyEnds == \E c \in app.chains : BodyReturn(c) \/ BodyThrow(c)

Resumes == \E c \in app.chains : Return(c) \/ ReturnThrow(c)

Fairness ==
  /\ WF_vars(\E c \in app.chains : BeginTransaction(c))
  /\ WF_vars(\E c \in app.chains : CommitTransaction(c))
  /\ WF_vars(\E c \in app.chains : RollbackTransaction(c))
  /\ WF_vars(BodyEnds)
  /\ WF_vars(Resumes)

SpecLive == InitLive /\ [][Next]_vars /\ Fairness
-----------------------------------------------------------------------------
(* Storage, and the shape of the call tree *)

Invs == 1 .. Len(inv)

\* What a query outside any transaction finds: the saves made through
\* dataSource.manager, and those of committed transactions.
Committed ==
  {w \in writes : IF w.via = 0 THEN TRUE ELSE txs[w.via].state = "committed"}

\* Invocation i was made, directly or not, by the body of invocation o.
RECURSIVE Under(_, _)
Under(i, o) ==
  IF inv[i].parent = 0 THEN FALSE
  ELSE IF inv[i].parent = o THEN TRUE ELSE Under(inv[i].parent, o)

Tree(o) == {i \in Invs : Under(i, o)}

\* Invocation i is a REQUIRED call on o's dataSource reached from o's body
\* through such calls only.
RECURSIVE ReqUnder(_, _)
ReqUnder(i, o) ==
  /\ inv[i].propagation = "REQUIRED"
  /\ inv[i].ds = inv[o].ds
  /\ IF inv[i].parent = 0 THEN FALSE
     ELSE IF inv[i].parent = o THEN TRUE ELSE ReqUnder(inv[i].parent, o)

Settled(i) == inv[i].pc \in {"return", "done"}

Begun(S) == {i \in S : txs[i].state # "none"}
-----------------------------------------------------------------------------
(* Claims *)

\* C1: when a REQUIRED invocation that started a transaction has returned with
\* an error, no save made by the REQUIRED calls nested in it on the same
\* dataSource is in committed storage.
C1_AllOrNothing ==
  \A o \in Invs :
    (/\ inv[o].mode = "new"
     /\ inv[o].propagation = "REQUIRED"
     /\ inv[o].pc = "done"
     /\ inv[o].result.kind = "err")
    => \A w \in writes :
         (IF w.by = 0 THEN FALSE ELSE ReqUnder(w.by, o)) => w \notin Committed

\* C1 witness: signup -> createOrganization (saves), createUser (saves, fails),
\* the error leaves signup, and signup has returned.
C1_Witness ==
  \E o \in Invs, j \in Invs, k \in Invs :
    /\ j < k
    /\ inv[j].parent = o /\ inv[k].parent = o
    /\ ReqUnder(j, o) /\ ReqUnder(k, o)
    /\ inv[o].mode = "new" /\ inv[o].propagation = "REQUIRED"
    /\ inv[o].pc = "done"
    /\ inv[j].result.kind = "ok"
    /\ inv[k].result.kind = "err"
    /\ inv[o].result = inv[k].result
    /\ \E w \in writes : w.by = j
    /\ \E w \in writes : w.by = k

\* C2: a returned invocation that started a transaction, all of whose nested
\* calls are REQUIRED calls on its dataSource and succeeded, began exactly one
\* transaction in its whole call tree and committed exactly one.
C2_JoinCorrectness ==
  \A o \in Invs :
    (/\ inv[o].mode = "new"
     /\ inv[o].pc = "done"
     /\ inv[o].result.kind = "ok"
     /\ \A i \in Tree(o) : ReqUnder(i, o) /\ inv[i].result.kind = "ok")
    => /\ Cardinality(Begun(Tree(o) \cup {o})) = 1
       /\ Cardinality({i \in Tree(o) \cup {o} : txs[i].state = "committed"}) = 1

\* C2 witness: N = 2, one of the nested calls inside the other.
C2_Witness ==
  \E o \in Invs, j \in Invs, k \in Invs :
    /\ inv[j].parent = o /\ inv[k].parent = j
    /\ Tree(o) = {j, k}
    /\ ReqUnder(j, o) /\ ReqUnder(k, o)
    /\ inv[o].mode = "new" /\ inv[o].pc = "done"
    /\ \A i \in {o, j, k} : inv[i].result.kind = "ok"

\* C3: of two REQUIRED calls made one after the other by the unwrapped root
\* caller, the first succeeding and the second failing, the saves of the
\* first are in committed storage and those of the second are not.
C3_IndependentPartialSuccess ==
  \A i \in Invs, j \in Invs :
    (/\ i < j
     /\ inv[i].chain = inv[j].chain
     /\ inv[i].parent = 0 /\ inv[j].parent = 0
     /\ inv[i].propagation = "REQUIRED" /\ inv[j].propagation = "REQUIRED"
     /\ inv[i].ds # NoDataSource /\ inv[j].ds # NoDataSource
     /\ inv[i].pc = "done" /\ inv[i].result.kind = "ok"
     /\ inv[j].pc = "done" /\ inv[j].result.kind = "err")
    => \A w \in writes : /\ w.by = i => w \in Committed
                         /\ w.by = j => w \notin Committed

\* C3 witness: both calls saved, the second then failed.
C3_Witness ==
  \E i \in Invs, j \in Invs :
    /\ i < j
    /\ inv[i].parent = 0 /\ inv[j].parent = 0
    /\ inv[i].propagation = "REQUIRED" /\ inv[j].propagation = "REQUIRED"
    /\ inv[i].ds # NoDataSource /\ inv[j].ds # NoDataSource
    /\ inv[i].pc = "done" /\ inv[i].result.kind = "ok"
    /\ inv[j].pc = "done" /\ inv[j].result.kind = "err"
    /\ \E w \in writes : w.by = i
    /\ \E w \in writes : w.by = j

\* The invocation whose transaction the body calling k ran in.
Enclosing(k) == inv[k].existing.manager

\* C4: a REQUIRES_NEW call made inside an active transaction and settled with
\* an error has rolled back its own transaction and no other: the enclosing
\* transaction is rolled back only if the enclosing body itself failed, and
\* once the enclosing invocation has returned normally its transaction is
\* committed, its saves are in committed storage and the inner ones are not.
C4_RequiresNewFailureIsolation ==
  \A k \in Invs :
    (/\ inv[k].propagation = "REQUIRES_NEW"
     /\ inv[k].existing # NoContextData
     /\ Settled(k)
     /\ inv[k].result.kind = "err")
    => /\ txs[k].state = "rolledback"
       /\ inv[k].result = inv[k].body
       /\ \A w \in writes : w.via = k => w \notin Committed
       /\ txs[Enclosing(k)].state = "rolledback"
            => inv[Enclosing(k)].body.kind = "err"
       /\ (inv[Enclosing(k)].pc = "done" /\ inv[Enclosing(k)].result.kind = "ok")
            => /\ txs[Enclosing(k)].state = "committed"
               /\ \A w \in writes : w.via = Enclosing(k) => w \in Committed

\* C4 witness: the outer body saved, caught the inner failure and returned
\* normally; the inner call had saved before it failed.
C4_Witness ==
  \E k \in Invs :
    /\ inv[k].propagation = "REQUIRES_NEW"
    /\ inv[k].existing # NoContextData
    /\ inv[k].pc = "done" /\ inv[k].result.kind = "err"
    /\ inv[k].parent = Enclosing(k)
    /\ inv[Enclosing(k)].pc = "done"
    /\ inv[Enclosing(k)].result.kind = "ok"
    /\ \E w \in writes : w.by = k
    /\ \E w \in writes : w.by = Enclosing(k)

\* C5: every REQUIRES_NEW invocation on a dataSource takes the start-new path;
\* once its transaction is begun, its body's store holds a manager of its own,
\* different from the store its caller saw; and a returned REQUIRED call from
\* the root whose only nested call is a REQUIRES_NEW call began two
\* transactions.
C5_RequiresNewAlwaysStartsNew ==
  /\ \A k \in Invs :
       (inv[k].propagation = "REQUIRES_NEW" /\ inv[k].ds # NoDataSource)
       => /\ inv[k].mode = "new"
          /\ inv[k].pc # "begin"
               => /\ txs[k].state # "none"
                  /\ AlsGetStore(inv[k].ctx, transactionContexts[inv[k].ds])
                       = ContextData(k, inv[k].ds)
                  /\ inv[k].existing # ContextData(k, inv[k].ds)
  /\ \A o \in Invs, k \in Invs :
       (/\ inv[o].parent = 0 /\ inv[o].propagation = "REQUIRED"
        /\ inv[o].ds # NoDataSource /\ inv[o].pc = "done"
        /\ Tree(o) = {k}
        /\ inv[k].propagation = "REQUIRES_NEW" /\ inv[k].ds = inv[o].ds)
       => Cardinality(Begun({o, k})) = 2

\* C5 witness: a REQUIRES_NEW body running inside an active transaction, and
\* the one inside a REQUIRED call that has returned.
C5_Witness ==
  \E o \in Invs, k \in Invs :
    /\ inv[o].parent = 0 /\ inv[o].propagation = "REQUIRED"
    /\ inv[o].pc = "done"
    /\ Tree(o) = {k}
    /\ inv[k].propagation = "REQUIRES_NEW" /\ inv[k].ds = inv[o].ds
    /\ inv[k].existing = ContextData(o, inv[o].ds)
    /\ txs[k].state # "none"

\* C8: when the operation of a start-new invocation failed with error e, the
\* invocation's transaction is never committed, and once the wrapper has
\* settled it is rolled back and the wrapper rejected with e itself.
C8_OperationErrorRollsBack ==
  \A i \in Invs :
    (inv[i].mode = "new" /\ inv[i].body.kind = "err")
    => /\ txs[i].state \in {"open", "rolledback"}
       /\ Settled(i) => /\ txs[i].state = "rolledback"
                        /\ inv[i].result = inv[i].body

\* C8 witness: a start-new invocation whose own operation threw has returned,
\* and one that failed with the error of a nested call.
C8_Witness ==
  \E i \in Invs, j \in Invs :
    /\ inv[i].mode = "new" /\ inv[i].pc = "done"
    /\ inv[i].body.kind = "err" /\ inv[i].body.from = i
    /\ inv[j].mode = "new" /\ inv[j].pc = "done"
    /\ inv[j].body.kind = "err" /\ inv[j].body.from # j

\* C9: the transaction of a start-new invocation is committed only after its
\* operation completed normally; when the operation completed normally with r
\* the transaction is never rolled back, and once the wrapper has settled the
\* transaction is committed and the wrapper resolved with r itself.
C9_SuccessCommits ==
  \A i \in Invs :
    inv[i].mode = "new"
    => /\ txs[i].state = "committed" => inv[i].body.kind = "ok"
       /\ inv[i].body.kind = "ok"
            => /\ txs[i].state \in {"open", "committed"}
               /\ Settled(i) => /\ txs[i].state = "committed"
                                /\ inv[i].result = inv[i].body
                                /\ inv[i].result.from = i

\* C9 witness: committed, and the wrapper has not yet returned to its caller.
C9_Witness ==
  \E i \in Invs :
    /\ inv[i].mode = "new" /\ inv[i].pc = "return"
    /\ inv[i].body.kind = "ok"
    /\ txs[i].state = "committed"
    /\ \E w \in writes : w.via = i

\* C10: in every step in which a start-new invocation returns to its caller,
\* normally or with an error, the store the caller's chain then sees for the
\* invocation's dataSource is the one the wrapper saw when it was called.
C10_FrameRestored ==
  [][\A c \in app.chains :
       (/\ stack[c] # <<>>
        /\ stack'[c] = Pop(stack[c])
        /\ inv[Top(c)].mode = "new")
       => AlsGetStore(CurrentCtx(c)', transactionContexts'[inv[Top(c)].ds])
            = inv[Top(c)].existing]_vars

\* C10 witness: a REQUIRES_NEW invocation returned with an error into a body
\* that runs in a transaction, and one returned normally to the root.
C10_Witness ==
  \E i \in Invs, j \in Invs :
    /\ inv[i].mode = "new" /\ inv[i].pc = "done"
    /\ inv[i].existing # NoContextData
    /\ inv[i].result.kind = "err"
    /\ stack[inv[i].chain] # <<>>
    /\ Top(inv[i].chain) = inv[i].parent
    /\ inv[j].mode = "new" /\ inv[j].pc = "done"
    /\ inv[j].parent = 0 /\ inv[j].result.kind = "ok"

\* What chain c resolves for ds at its current position: the manager of the
\* frame getCurrentTransactionManager returns (0 for none) and the manager
\* BaseTransactionalService.getManager hands out.
ResolvedTx(c, ds) == getCurrentTransactionManager(transactionContexts, CurrentCtx(c), ds)

ResolvedManager(c, ds) == getManager(transactionContexts, CurrentCtx(c), ds)

----------------------------------------------------------------------------
\* C6 - Call-chain isolation: with unrelated call chains interleaved on the
\* same DataSource, whatever a chain resolves at any of its positions
\* (getCurrentTransactionManager, getManager, the existingContext a wrapper
\* call read, the manager a save went through) is a frame activated by an
\* invocation of that same chain, never one activated by another chain.
C6_ChainIsolation ==
  /\ \A c \in app.chains : \A ds \in app.services \ {NoDataSource} :
        /\ ResolvedTx(c, ds) # 0 => inv[ResolvedTx(c, ds)].chain = c
        /\ ResolvedManager(c, ds).tx # 0 => inv[ResolvedManager(c, ds).tx].chain = c
  /\ \A i \in Invs :
        inv[i].existing # NoContextData
          => inv[inv[i].existing.manager].chain = inv[i].chain
  /\ \A w \in writes : w.via # 0 => inv[w.via].chain = w.chain

\* Both chains are inside their own open transaction on the same DataSource
\* at once, each has saved through its own frame, and each still resolves
\* its own frame.
C6_Witness ==
  \E i \in Invs : \E j \in Invs :
    /\ inv[i].chain = "c1" /\ inv[j].chain = "c2"
    /\ inv[i].ds = inv[j].ds
    /\ inv[i].mode = "new" /\ inv[j].mode = "new"
    /\ inv[i].pc = "body" /\ inv[j].pc = "body"
    /\ txs[i].state = "open" /\ txs[j].state = "open"
    /\ ResolvedTx("c1", inv[i].ds) = i /\ ResolvedTx("c2", inv[j].ds) = j
    /\ \E w \in writes : w.chain = "c1" /\ w.via = i
    /\ \E w \in writes : w.chain = "c2" /\ w.via = j

----------------------------------------------------------------------------
\* The invocations of chain c on ds whose context.run callback is running.
ActiveFrames(c, ds) ==
  {stack[c][k] : k \in 1 .. Len(stack[c])}
    \cap {i \in Invs : inv[i].ds = ds /\ inv[i].mode = "new" /\ inv[i].pc = "body"}

\* The step is one of an invocation on ds: a call of a method bound to ds,
\* or a begin, body end, commit, rollback or return of such an invocation.
ActedOn(ds) ==
  \E i \in 1 .. Len(inv') :
    /\ inv'[i].ds = ds
    /\ \/ i > Len(inv)
       \/ inv'[i].pc # inv[i].pc

\* C7 - Multi-resource independence: while user code of a chain runs with a
\* frame active for DataSource A and none for DataSource B, getManager for B
\* is B's default manager, getCurrentTransactionManager(B) is none and a
\* save to B goes through no transaction of A; and no step of an invocation
\* on another DataSource (activation, deactivation, commit, rollback)
\* changes what any chain resolves for B.
C7_ResourceIndependence ==
  /\ [](\A c \in app.chains : \A a \in app.services : \A b \in app.services :
          (/\ a # b
           /\ InUserCode(c)
           /\ ActiveFrames(c, a) # {}
           /\ ActiveFrames(c, b) = {})
          => /\ ResolvedTx(c, b) = 0
             /\ ResolvedManager(c, b) = Manager(b, 0))
  /\ [](\A w \in writes : w.via # 0 => inv[w.via].ds = w.ds)
  /\ [][\A b \in app.services : \A c \in app.chains :
          ~ActedOn(b) => ResolvedTx(c, b)' = ResolvedTx(c, b)]_vars

\* Inside an open transaction on dsA, with no invocation on dsB at all, code
\* has saved to dsB: the save went through dsB's default manager, and dsB
\* still resolves to none.
C7_Witness ==
  \E i \in Invs :
    /\ inv[i].ds = "dsA" /\ inv[i].mode = "new" /\ inv[i].pc = "body"
    /\ Top("c1") = i
    /\ txs[i].state = "open"
    /\ \A j \in Invs : inv[j].ds # "dsB"
    /\ \E w \in writes : w.by = i /\ w.ds = "dsB" /\ w.via = 0
    /\ \E w \in writes : w.by = i /\ w.ds = "dsA" /\ w.via = i
    /\ ResolvedTx("c1", "dsB") = 0
    /\ ResolvedTx("c1", "dsA") = i

----------------------------------------------------------------------------
\* The transaction of invocation i has been ended.
Ended(i) == i \in Invs /\ txs[i].state \in {"committed", "rolledback"}

----------------------------------------------------------------------------
\* The frame that code running in asynchronous context ctx sees for ds.
FrameIn(ctx, ds) ==
  AlsGetStore(ctx, getOrCreateTransactionContext(transactionContexts, ds))

\* The step is one of a joined invocation: the call that joins, the end of
\* its body, or its return to the caller.
JoinStep(i) ==
  /\ i \in 1 .. Len(inv')
  /\ inv'[i].mode = "join"
  /\ \/ i \notin Invs
     \/ inv'[i].pc # inv[i].pc

\* C12 - Join leaves transaction state untouched: a joined invocation is a
\* REQUIRED one made inside a frame for its dataSource; none of its steps
\* begins, commits or rolls back a transaction; while its body runs, the
\* frame and the manager it resolves are those of its caller, the frame that
\* was current at the call; and when it returns the caller still has that
\* frame.
C12_JoinLeavesStateUntouched ==
  /\ [](\A i \in Invs :
          inv[i].mode = "join" =>
            /\ inv[i].propagation = "REQUIRED"
            /\ inv[i].existing # NoContextData
            /\ inv[i].parent # 0
            /\ txs[i] = NoTx
            /\ inv[i].pc = "body" =>
                 /\ FrameIn(inv[i].ctx, inv[i].ds) = inv[i].existing
                 /\ FrameIn(inv[i].ctx, inv[i].ds)
                      = FrameIn(inv[inv[i].parent].ctx, inv[i].ds)
                 /\ getManager(transactionContexts, inv[i].ctx, inv[i].ds)
                      = getManager(transactionContexts, inv[inv[i].parent].ctx,
                                   inv[i].ds))
  /\ [][\A i \in 1 .. Len(inv') :
          JoinStep(i) =>
            /\ \A k \in Invs : txs'[k] = txs[k]
            /\ \A k \in 1 .. Len(txs') : k \notin Invs => txs'[k] = NoTx
            /\ inv'[i].pc = "done" =>
                 FrameIn(inv'[inv[i].parent].ctx, inv[i].ds) = inv[i].existing]_vars

\* A REQUIRED call joined the transaction of its caller, saved through the
\* caller's manager and returned; the caller's transaction is still open and
\* the caller still resolves its own frame.
C12_Witness ==
  \E o \in Invs : \E j \in Invs :
    /\ inv[o].mode = "new" /\ inv[o].pc = "body" /\ txs[o].state = "open"
    /\ inv[j].mode = "join" /\ inv[j].parent = o /\ inv[j].pc = "done"
    /\ inv[j].existing = ContextData(o, inv[o].ds)
    /\ \E w \in writes : w.by = j /\ w.via = o
    /\ Top("c1") = o
    /\ FrameIn(CurrentCtx("c1"), inv[o].ds) = ContextData(o, inv[o].ds)

----------------------------------------------------------------------------
\* The innermost invocation of chain c whose context.run callback for ds is
\* in progress (0: none); invocations are numbered in call order.
InnermostFrame(c, ds) ==
  IF ActiveFrames(c, ds) = {} THEN 0
  ELSE CHOOSE i \in ActiveFrames(c, ds) : \A j \in ActiveFrames(c, ds) : j <= i

\* C13 - Accessor resolution: wherever user code of a chain runs, getManager
\* of a service on DataSource ds returns the transaction's manager of the
\* innermost frame active for ds in that chain, and ds's default manager
\* when no frame for ds is active; it always returns a manager of ds.
C13_AccessorResolution ==
  \A c \in app.chains : \A ds \in app.services \ {NoDataSource} :
    InUserCode(c) =>
      /\ ResolvedManager(c, ds) = Manager(ds, InnermostFrame(c, ds))
      /\ ResolvedManager(c, ds).ds = ds
      /\ ResolvedManager(c, ds).tx \in {0} \cup Invs

\* Inside a REQUIRES_NEW transaction on dsA nested in a transaction on dsA,
\* with no frame on dsB: dsA resolves the inner transaction's manager and
\* dsB its default manager, and saves went through both.
C13_Witness ==
  \E o \in Invs : \E k \in Invs :
    /\ inv[o].ds = "dsA" /\ inv[k].ds = "dsA"
    /\ inv[o].mode = "new" /\ inv[k].mode = "new" /\ inv[k].parent = o
    /\ inv[k].pc = "body" /\ Top("c1") = k
    /\ ResolvedManager("c1", "dsA") = Manager("dsA", k)
    /\ ResolvedManager("c1", "dsB") = Manager("dsB", 0)
    /\ \E w \in writes : w.by = k /\ w.ds = "dsA" /\ w.via = k
    /\ \E w \in writes : w.by = k /\ w.ds = "dsB" /\ w.via = 0

----------------------------------------------------------------------------
\* C15 - getCurrentTransactionManager(ds) returns the manager of the frame
\* active for ds in the calling chain exactly when there is one, null (0)
\* when no transaction is active for ds, and null when it is called without
\* a dataSource, whatever transaction is active.
C15_CurrentTransactionManager ==
  \A c \in app.chains :
    InUserCode(c) =>
      /\ \A ds \in app.services \ {NoDataSource} :
            /\ ActiveFrames(c, ds) # {}
                 => ResolvedTx(c, ds) = InnermostFrame(c, ds) /\ ResolvedTx(c, ds) # 0
            /\ ActiveFrames(c, ds) = {} => ResolvedTx(c, ds) = 0
      /\ getCurrentTransactionManager(transactionContexts, CurrentCtx(c),
                                      NoDataSource) = 0

\* Code outside any service has looked up dsB from inside a transaction on
\* dsA: no invocation was ever made on dsB, its store exists, dsB resolves
\* to null and dsA to the running transaction.
C15_Witness ==
  \E i \in Invs :
    /\ Invs = {i}
    /\ inv[i].ds = "dsA" /\ inv[i].mode = "new" /\ inv[i].pc = "body"
    /\ writes = {}
    /\ transactionContexts["dsB"] # 0
    /\ ResolvedTx("c1", "dsA") = i
    /\ ResolvedTx("c1", "dsB") = 0

----------------------------------------------------------------------------
\* The step is a resolution by user code: getManager() under a save, or
\* getCurrentTransactionManager(ds) called directly.
ResolveStep ==
  \/ \E c \in app.chains, ds \in app.services \ {NoDataSource} : Save(c, ds)
  \/ \E c \in app.chains, ds \in app.services \ {NoDataSource} : Lookup(c, ds)

\* C14 as stated - a resolution changes no engine state: the registry's set
\* of stores, every store's current frame and the transactions are unchanged,
\* also for a DataSource never used before.
C14_PureLookupAsStated ==
  [][ResolveStep =>
       /\ transactionContexts' = transactionContexts
       /\ inv' = inv /\ rootCtx' = rootCtx
       /\ txs' = txs]_vars

\* C14 as amended - a resolution changes no store's current frame and no
\* transaction, and what every chain resolves for every DataSource is the
\* same after it; in the registry it leaves every existing store in place
\* and only adds the empty store of a DataSource that had none.
C14_LookupOnlyCreatesStore ==
  [][ResolveStep =>
       /\ inv' = inv /\ rootCtx' = rootCtx
       /\ txs' = txs
       /\ \A ds \in DataSources :
            /\ transactionContexts[ds] # 0
                 => transactionContexts'[ds] = transactionContexts[ds]
            /\ (transactionContexts[ds] = 0 /\ transactionContexts'[ds] # 0)
                 => /\ \A d \in DataSources : transactionContexts[d] # transactionContexts'[ds]
                    /\ \A c \in app.chains :
                         AlsGetStore(CurrentCtx(c)', transactionContexts'[ds]) = NoContextData
       /\ \A c \in app.chains : \A ds \in app.services \ {NoDataSource} :
            ResolvedTx(c, ds)' = ResolvedTx(c, ds)]_vars

\* Inside an open transaction on dsA that has saved through its manager,
\* dsB, on which nothing was ever called or saved, has been looked up: its
\* store now exists and is empty.
C14_Witness ==
  \E i \in Invs :
    /\ inv[i].ds = "dsA" /\ inv[i].mode = "new" /\ inv[i].pc = "body"
    /\ txs[i].state = "open"
    /\ \A j \in Invs : inv[j].ds = "dsA"
    /\ \A w \in writes : w.ds = "dsA"
    /\ \E w \in writes : w.via = i
    /\ transactionContexts["dsB"] # 0
    /\ AlsGetStore(CurrentCtx("c1"), transactionContexts["dsB"]) = NoContextData

----------------------------------------------------------------------------
\* C16 - Configuration error: a wrapped method called on a service without
\* dataSource rejects at once with the DataSource-not-found error of that
\* call, whatever its propagation option: its body never runs (no outcome,
\* no save, no nested call), it begins no transaction, it activates no
\* frame, and the call is made once (nothing of it is left to run).
C16_ConfigurationError ==
  \A i \in Invs :
    inv[i].ds = NoDataSource =>
      /\ inv[i].mode = "config_error"
      /\ inv[i].pc \in {"return", "done"}
      /\ inv[i].result = [kind |-> "err", val |-> "DataSourceNotFound", from |-> i]
      /\ inv[i].body = NoOutcome
      /\ txs[i] = NoTx
      /\ inv[i].tx = 0
      /\ \A s \in StoreIds : inv[i].ctx[s].manager # i
      /\ \A w \in writes : w.by # i /\ w.via # i
      /\ \A k \in Invs : inv[k].parent # i

\* Inside an open transaction on dsA, a REQUIRED and a REQUIRES_NEW method
\* of the service without dataSource have been called and have rejected;
\* the transaction is still open and still the current frame.
C16_Witness ==
  \E o \in Invs : \E j \in Invs : \E k \in Invs :
    /\ inv[o].ds = "dsA" /\ inv[o].mode = "new" /\ inv[o].pc = "body"
    /\ txs[o].state = "open"
    /\ inv[j].ds = NoDataSource /\ inv[j].propagation = "REQUIRED"
    /\ inv[k].ds = NoDataSource /\ inv[k].propagation = "REQUIRES_NEW"
    /\ inv[j].parent = o /\ inv[k].parent = o
    /\ inv[j].pc = "done" /\ inv[k].pc = "done"
    /\ ResolvedTx("c1", "dsA") = o

----------------------------------------------------------------------------
\* C17 - Isolation negotiation table: the level a 'start new' invocation
\* passes to dataSource.transaction, and the transaction is started with, is
\* none when none was requested; on sqlite the requested level when that is
\* READ UNCOMMITTED or SERIALIZABLE, and SERIALIZABLE when READ COMMITTED or
\* REPEATABLE READ was requested; on any other database the requested level.
C17_IsolationTable ==
  \A i \in Invs :
    inv[i].mode = "new" =>
      LET requested == inv[i].isolation
          expected ==
            CASE requested = NoLevel -> NoLevel
              [] requested # NoLevel /\ DbType(inv[i].ds) = "sqlite"
                   /\ requested = "READ UNCOMMITTED" -> "READ UNCOMMITTED"
              [] requested # NoLevel /\ DbType(inv[i].ds) = "sqlite"
                   /\ requested = "SERIALIZABLE" -> "SERIALIZABLE"
              [] requested # NoLevel /\ DbType(inv[i].ds) = "sqlite"
                   /\ requested \in {"READ COMMITTED", "REPEATABLE READ"}
                   -> "SERIALIZABLE"
              [] requested # NoLevel /\ DbType(inv[i].ds) # "sqlite" -> requested
      IN  /\ inv[i].isolationLevel = expected
          /\ txs[i].state # "none" => txs[i].isolation = expected

\* On sqlite a method declared READ COMMITTED has run in a transaction
\* started SERIALIZABLE, and the transaction has committed.
C17_Witness ==
  \E i \in Invs :
    /\ inv[i].ds = "dsA" /\ DbType("dsA") = "sqlite"
    /\ inv[i].isolation = "READ COMMITTED"
    /\ inv[i].mode = "new"
    /\ txs[i].state = "committed" /\ txs[i].isolation = "SERIALIZABLE"

\* C18 - Isolation fallback is never weaker and never an error: whenever a
\* level is requested the 'start new' invocation goes on to start its
\* transaction with a level, that level is at least as strict as the
\* requested one in the order READ UNCOMMITTED < READ COMMITTED <
\* REPEATABLE READ < SERIALIZABLE, and on sqlite it is one of the two levels
\* sqlite supports.
C18_FallbackNeverWeaker ==
  LET strictness ==
        [l \in IsolationLevels |->
           CASE l = "READ UNCOMMITTED" -> 1 [] l = "READ COMMITTED" -> 2
             [] l = "REPEATABLE READ" -> 3 [] l = "SERIALIZABLE" -> 4]
  IN  \A i \in Invs :
        (inv[i].mode = "new" /\ inv[i].isolation # NoLevel) =>
          /\ inv[i].isolationLevel \in IsolationLevels
          /\ inv[i].result.val # "DataSourceNotFound"
          /\ strictness[inv[i].isolationLevel] >= strictness[inv[i].isolation]
          /\ DbType(inv[i].ds) = "sqlite"
               => inv[i].isolationLevel \in {"READ UNCOMMITTED", "SERIALIZABLE"}
          /\ txs[i].state # "none" => txs[i].isolation = inv[i].isolationLevel

\* On sqlite a method declared REPEATABLE READ, called inside another
\* transaction of the same kind, runs in a transaction started SERIALIZABLE.
C18_Witness ==
  \E o \in Invs : \E i \in Invs :
    /\ inv[i].parent = o
    /\ inv[o].ds = "dsA" /\ inv[i].ds = "dsA"
    /\ inv[o].isolation = "REPEATABLE READ" /\ inv[i].isolation = "REPEATABLE READ"
    /\ inv[i].mode = "new" /\ inv[i].pc = "body"
    /\ txs[o].state = "open" /\ txs[o].isolation = "SERIALIZABLE"
    /\ txs[i].state = "open" /\ txs[i].isolation = "SERIALIZABLE"

----------------------------------------------------------------------------
\* C19 - A joined call never itself triggers rollback: when a joined call
\* has failed it has no transaction of its own to end and, at the moment its
\* promise rejects, the transaction it joined is still open; that
\* transaction is rolled back only if the body of the invocation that
\* started it ended with an error, and if that body completed normally the
\* transaction is committed together with the saves the failed joined call
\* made.
C19_JoinedFailureNoRollback ==
  \A j \in Invs :
    (inv[j].mode = "join" /\ Settled(j) /\ inv[j].result.kind = "err") =>
      /\ txs[j] = NoTx
      /\ inv[j].result = inv[j].body
      /\ inv[j].pc = "return" => txs[Enclosing(j)].state = "open"
      /\ txs[Enclosing(j)].state = "rolledback"
           => inv[Enclosing(j)].body.kind = "err"
      /\ (Settled(Enclosing(j)) /\ inv[Enclosing(j)].body.kind = "ok")
           => /\ txs[Enclosing(j)].state = "committed"
              /\ \A w \in writes : w.by = j => w \in Committed

\* A joined call saved through the enclosing manager and failed; the
\* enclosing body caught the error and returned, and the transaction was
\* committed with the joined call's save in it.
C19_Witness ==
  \E j \in Invs :
    /\ inv[j].mode = "join" /\ inv[j].pc = "done"
    /\ inv[j].result.kind = "err" /\ inv[j].result.from = j
    /\ inv[j].parent = Enclosing(j)
    /\ inv[Enclosing(j)].pc = "done"
    /\ inv[Enclosing(j)].result.kind = "ok"
    /\ txs[Enclosing(j)].state = "committed"
    /\ \E w \in writes : w.by = j /\ w.via = Enclosing(j) /\ w \in Committed

----------------------------------------------------------------------------
\* The backend errors of the operations of invocation i that failed.
BackendErrors(i) == {BackendError(i, op) : op \in txs[i].failed}

\* In this step invocation i, one of whose backend operations failed, leaves
\* the stack of chain c, and its caller then sees for i's dataSource the
\* frame the wrapper saw when it was called.
FrameNotLeftActive ==
  \A c \in app.chains :
    (/\ stack[c] # <<>>
     /\ stack'[c] = Pop(stack[c])
     /\ txs[Top(c)].failed # {})
    => AlsGetStore(CurrentCtx(c)', transactionContexts'[inv[Top(c)].ds])
         = inv[Top(c)].existing

\* C20 as stated - whenever the begin, the commit or the rollback of a 'start
\* new' invocation failed, the error its caller receives is that backend
\* error, and the invocation's frame is not left active.
C20_BackendErrorAsStated ==
  /\ [](\A i \in Invs :
          (Settled(i) /\ txs[i].failed # {}) => inv[i].result \in BackendErrors(i))
  /\ [][FrameNotLeftActive]_vars

\* C20 as amended - the caller receives, unchanged, the error that
\* dataSource.transaction rejected with: the begin error when the begin
\* failed (the body then never ran), the commit error when the commit failed
\* and the following rollback succeeded, and when a rollback failed either
\* the error that caused the rollback (the operation's or the commit's) or
\* the rollback error; in every case the invocation's frame is not left
\* active.
C20_BackendErrorSurfaced ==
  /\ [](\A i \in Invs :
          (Settled(i) /\ txs[i].failed # {}) =>
            /\ inv[i].mode = "new"
            /\ inv[i].result.kind = "err"
            /\ "begin" \in txs[i].failed
                 => /\ inv[i].result = BackendError(i, "begin")
                    /\ inv[i].body = NoOutcome
                    /\ \A w \in writes : w.via # i
            /\ txs[i].failed = {"commit"}
                 => /\ inv[i].result = BackendError(i, "commit")
                    /\ txs[i].state = "rolledback"
            /\ txs[i].failed = {"commit", "rollback"}
                 => inv[i].result \in BackendErrors(i)
            /\ txs[i].failed = {"rollback"}
                 => /\ inv[i].body.kind = "err"
                    /\ inv[i].result \in {inv[i].body, BackendError(i, "rollback")})
  /\ [][FrameNotLeftActive]_vars

\* Nested in an open transaction, an invocation whose body saved and threw
\* and whose rollback then failed has returned the body's error to the body
\* of the enclosing transaction, which still resolves its own frame.
C20_Witness ==
  \E o \in Invs : \E i \in Invs :
    /\ inv[i].parent = o /\ inv[i].mode = "new" /\ inv[i].pc = "done"
    /\ inv[i].body.kind = "err" /\ inv[i].body.from = i
    /\ txs[i].failed = {"rollback"} /\ txs[i].state = "broken"
    /\ inv[i].result = inv[i].body
    /\ \E w \in writes : w.via = i
    /\ inv[o].mode = "new" /\ inv[o].pc = "body" /\ txs[o].state = "open"
    /\ ResolvedTx("c1", inv[o].ds) = o

----------------------------------------------------------------------------
\* The body of invocation i ended with the abort of the chain: an awaited
\* operation of its own, or a call it made, rejected with the AbortError.
Aborted(i) == inv[i].body.kind = "err" /\ inv[i].body.val = "AbortError"

\* C21 - Cancellation: when the chain is aborted while the transaction of a
\* 'start new' invocation is open, the invocation does not settle before the
\* rollback of that transaction has been attempted (it succeeded, or it
\* failed); what its caller then receives is an error, the abort itself when
\* the rollback succeeded; and in the step in which it returns to its
\* caller, the caller's frame is the one from before the call.
C21_CancellationRollsBack ==
  /\ [](\A i \in Invs :
          (inv[i].mode = "new" /\ Aborted(i)) =>
            /\ inv[i].pc = "rollback" => txs[i].state = "open"
            /\ inv[i].pc # "rollback" =>
                 /\ Settled(i)
                 /\ txs[i].state \in {"rolledback", "broken"}
                 /\ txs[i].state = "broken" <=> "rollback" \in txs[i].failed
                 /\ inv[i].result.kind = "err"
                 /\ txs[i].state = "rolledback" => inv[i].result = inv[i].body)
  /\ [][\A c \in app.chains :
          (/\ stack[c] # <<>>
           /\ stack'[c] = Pop(stack[c])
           /\ inv[Top(c)].mode = "new"
           /\ Aborted(Top(c)))
          => /\ txs[Top(c)].state \in {"rolledback", "broken"}
             /\ AlsGetStore(CurrentCtx(c)', transactionContexts'[inv[Top(c)].ds])
                  = inv[Top(c)].existing]_vars

\* The abort hit the body of a REQUIRES_NEW invocation nested in another
\* transaction and went up through both: both transactions were rolled back
\* and the root caller received the AbortError of the inner body.
C21_Witness ==
  \E o \in Invs : \E i \in Invs :
    /\ inv[i].parent = o /\ inv[o].parent = 0
    /\ inv[i].mode = "new" /\ inv[o].mode = "new"
    /\ Aborted(i) /\ inv[i].body.from = i
    /\ inv[o].body = inv[i].body
    /\ inv[i].pc = "done" /\ inv[o].pc = "done"
    /\ txs[i].state = "rolledback" /\ txs[o].state = "rolledback"
    /\ inv[o].result = inv[i].body
    /\ stack["c1"] = <<>>
    /\ AlsGetStore(rootCtx["c1"], transactionContexts["dsA"]) = NoContextData

----------------------------------------------------------------------------
\* C22 - Frame lifetime is bounded by the invocation that created it: in
\* every chain and every continuation, detached work included, getManager
\* never returns the manager of a transaction that is no longer open: the
\* running user code resolves none, the detached work of every started body
\* resolves none, and no save went through one.
C22_FrameLifetimeBounded ==
  /\ \A c \in app.chains : \A ds \in app.services \ {NoDataSource} :
        InUserCode(c) =>
          (ResolvedManager(c, ds).tx # 0
             => txs[ResolvedManager(c, ds).tx].state = "open")
  /\ \A c \in app.chains : \A i \in Detached(c) :
        \A ds \in app.services \ {NoDataSource} :
          LET manager == getManager(transactionContexts, inv[i].ctx, ds)
          IN  manager.tx # 0 => txs[manager.tx].state = "open"
  /\ \A w \in writes : ~w.stale

----------------------------------------------------------------------------
\* C23 - At most one frame is current: wherever user code of a chain runs,
\* the frame current for a DataSource is none when no context.run callback
\* for it is in progress in the chain and otherwise the frame of the
\* innermost one; the frames of the enclosing invocations are not current
\* while an inner one runs, and are current again once it has exited.
C23_OnlyInnermostFrameCurrent ==
  \A c \in app.chains : \A ds \in app.services \ {NoDataSource} :
    InUserCode(c) =>
      LET current == FrameIn(CurrentCtx(c), ds)
          visible == {i \in ActiveFrames(c, ds) : ContextData(i, ds) = current}
      IN  /\ ActiveFrames(c, ds) = {} => current = NoContextData
          /\ ActiveFrames(c, ds) # {}
               => /\ visible = {InnermostFrame(c, ds)}
                  /\ current.manager = Top(c) \/ inv[Top(c)].mode # "new"
                  /\ \A i \in ActiveFrames(c, ds) :
                       i # InnermostFrame(c, ds) => current # ContextData(i, ds)

\* Two REQUIRES_NEW activations were nested in a transaction: the second
\* has exited, the first is running with its frame current again, and the
\* outermost frame is hidden.
C23_Witness ==
  \E o \in Invs : \E k \in Invs : \E m \in Invs :
    /\ inv[o].parent = 0 /\ inv[k].parent = o /\ inv[m].parent = k
    /\ inv[o].mode = "new" /\ inv[k].mode = "new" /\ inv[m].mode = "new"
    /\ inv[o].pc = "body" /\ inv[k].pc = "body" /\ inv[m].pc = "done"
    /\ ActiveFrames("c1", "dsA") = {o, k}
    /\ FrameIn(CurrentCtx("c1"), "dsA") = ContextData(k, "dsA")

----------------------------------------------------------------------------
\* The step uses DataSource ds: a wrapped method of a service on ds is
\* called, or the manager of ds is resolved.
Uses(ds) ==
  \/ \E c \in app.chains : Call(c, ds)
  \/ \E c \in app.chains : Save(c, ds)
  \/ \E c \in app.chains : Lookup(c, ds)

\* C24 - Context Registry: every DataSource has at most one
\* AsyncLocalStorage and two DataSources never have the same one; the store
\* of a DataSource is created by the first step that uses it, and from then
\* on every getOrCreateTransactionContext for that DataSource returns that
\* same store.
C24_ContextRegistry ==
  /\ [](\A d \in DataSources : \A e \in DataSources :
          (d # e /\ transactionContexts[d] # 0)
            => transactionContexts[d] # transactionContexts[e])
  /\ [](\A d \in DataSources :
          transactionContexts[d] # 0
            => getOrCreateTransactionContext(transactionContexts, d)
                 = transactionContexts[d])
  /\ [][\A d \in DataSources :
          /\ transactionContexts[d] # 0
               => /\ transactionContexts'[d] = transactionContexts[d]
                  /\ getOrCreateTransactionContext(transactionContexts', d)
                       = getOrCreateTransactionContext(transactionContexts, d)
          /\ (transactionContexts[d] = 0 /\ transactionContexts'[d] # 0)
               => /\ Uses(d)
                  /\ transactionContexts'[d]
                       = getOrCreateTransactionContext(transactionContexts, d)
          /\ (transactionContexts[d] = 0 /\ Uses(d))
               => transactionContexts'[d] # 0]_vars

\* Both DataSources have been used, dsB first, more than once each: each
\* has its store, the two stores differ, and a transaction on dsA is open.
C24_Witness ==
  /\ transactionContexts["dsB"] = 1
  /\ transactionContexts["dsA"] = 2
  /\ \E i \in Invs : \E j \in Invs :
       /\ inv[i].ds = "dsB" /\ inv[i].pc = "done"
       /\ inv[j].ds = "dsA" /\ inv[j].pc = "body" /\ txs[j].state = "open"
  /\ \E w \in writes : w.ds = "dsB"
  /\ \E w \in writes : w.ds = "dsA"

----------------------------------------------------------------------------
\* C25 - No automatic retry: in every step and for every invocation, on the
\* join path and on the 'start new' path, once the transaction has been
\* begun (or its begin has failed) it is not begun again, once the body has
\* ended (normally or with an error) it is not run again and its outcome
\* stays, and once the wrapper has settled its result stays; this with the
\* begin, the commit and the rollback allowed to fail.
C25_NoAutomaticRetry ==
  [][\A i \in Invs :
       /\ inv[i].pc # "begin" => inv'[i].pc # "begin"
       /\ txs[i].state # "none"
            => /\ inv'[i].pc # "begin"
               /\ txs'[i].state # "none"
               /\ txs[i].state # "open" => txs'[i].state = txs[i].state
       /\ inv[i].body # NoOutcome
            => /\ inv'[i].body = inv[i].body
               /\ inv'[i].pc \notin {"begin", "body"}
       /\ inv[i].pc \in {"commit", "rollback", "return", "done"}
            => inv'[i].pc \notin {"begin", "body"}
       /\ inv[i].result # NoOutcome
            => /\ inv'[i].result = inv[i].result
               /\ inv'[i].pc \in {"return", "done"}]_vars

\* A joined call failed and its error left the enclosing body; the rollback
\* of the enclosing transaction failed too; both invocations have returned,
\* each with one body outcome.
C25_Witness ==
  \E o \in Invs : \E j \in Invs :
    /\ inv[j].parent = o /\ inv[j].mode = "join" /\ inv[o].mode = "new"
    /\ inv[j].body.kind = "err" /\ inv[j].body.from = j
    /\ inv[o].body = inv[j].body
    /\ txs[o].failed = {"rollback"}
    /\ inv[j].pc = "done" /\ inv[o].pc = "done"
    /\ Len(inv) = 2

----------------------------------------------------------------------------
\* The wrapped calls made by the unwrapped root caller of chain c.
RootCalls(c) == {i \in Invs : inv[i].chain = c /\ inv[i].parent = 0}

\* C26 - REQUIRED, given or by default, with no active frame starts a new
\* transaction: every wrapped call of an unwrapped caller takes the 'start
\* new' path; when the caller makes its next call the previous one has
\* returned and its transaction is ended; the transactions begun are as many
\* as the caller's calls that got to begin, the nested calls joining;
\* between calls no frame is active in the caller, and the caller's own
\* saves go through the default manager and begin nothing.
C26_RequiredStartsNewWhenNoFrame ==
  \A c \in app.chains :
    /\ \A i \in RootCalls(c) :
          /\ inv[i].propagation \in {NoPropagation, "REQUIRED"}
          /\ inv[i].existing = NoContextData
          /\ inv[i].mode = "new"
          /\ inv[i].pc # "begin" => txs[i].state # "none"
          /\ \A j \in RootCalls(c) :
                i < j => /\ inv[i].pc = "done"
                         /\ txs[i].state \in {"committed", "rolledback"}
    /\ Cardinality(Begun(Invs))
         = Cardinality({i \in RootCalls(c) : inv[i].pc # "begin"})
    /\ Cardinality({i \in Invs : txs[i].state = "open"}) <= 1
    /\ stack[c] = <<>> => FrameIn(rootCtx[c], "dsA") = NoContextData
    /\ \A w \in writes : w.by = 0 => w.via = 0 /\ w \in Committed

\* signupWithoutTransaction: two wrapped calls one after the other, each
\* saved in its own transaction and committed, then the caller's own save:
\* two transactions were begun and no frame is active.
C26_Witness ==
  \E i \in Invs : \E j \in Invs :
    /\ i < j /\ RootCalls("c1") = {i, j} /\ Len(inv) = 2
    /\ inv[i].propagation = NoPropagation /\ inv[j].propagation = NoPropagation
    /\ inv[i].pc = "done" /\ inv[j].pc = "done"
    /\ txs[i].state = "committed" /\ txs[j].state = "committed"
    /\ \E w \in writes : w.by = i /\ w.via = i
    /\ \E w \in writes : w.by = j /\ w.via = j
    /\ \E w \in writes : w.by = 0 /\ w.via = 0
    /\ Cardinality(Begun(Invs)) = 2
    /\ FrameIn(rootCtx["c1"], "dsA") = NoContextData

----------------------------------------------------------------------------
\* C27 - REQUIRES_NEW transactions are independent of the enclosing one
\* also when the enclosing one fails: a REQUIRES_NEW call made inside a
\* frame that completed normally has committed its own transaction and its
\* saves are in storage; when the body of the enclosing invocation then
\* fails, the enclosing transaction is rolled back with the saves made
\* through it, and the saves of the REQUIRES_NEW transaction remain.
C27_RequiresNewSurvivesOuterFailure ==
  \A k \in Invs :
    (/\ inv[k].propagation = "REQUIRES_NEW"
     /\ inv[k].existing # NoContextData
     /\ Settled(k)
     /\ inv[k].result.kind = "ok")
    => /\ txs[k].state = "committed"
       /\ \A w \in writes : w.by = k => (w.via = k /\ w \in Committed)
       /\ (Settled(Enclosing(k)) /\ inv[Enclosing(k)].body.kind = "err")
            => /\ txs[Enclosing(k)].state = "rolledback"
               /\ txs[k].state = "committed"
               /\ \A w \in writes : w.via = Enclosing(k) => w \notin Committed
               /\ \A w \in writes : w.via = k => w \in Committed

\* The enclosing body saved, called a REQUIRES_NEW method that saved and
\* returned, and then threw: it has returned with its error, its save is
\* gone and the save of the REQUIRES_NEW call is in storage.
C27_Witness ==
  \E k \in Invs :
    /\ inv[k].propagation = "REQUIRES_NEW"
    /\ inv[k].existing # NoContextData
    /\ inv[k].parent = Enclosing(k)
    /\ inv[k].pc = "done" /\ inv[k].result.kind = "ok"
    /\ inv[Enclosing(k)].pc = "done"
    /\ inv[Enclosing(k)].body.kind = "err"
    /\ inv[Enclosing(k)].body.from = Enclosing(k)
    /\ txs[Enclosing(k)].state = "rolledback"
    /\ \E w \in writes : w.by = k /\ w \in Committed
    /\ \E w \in writes : w.by = Enclosing(k) /\ w \notin Committed

----------------------------------------------------------------------------
\* C28 - Interleaved top-level calls do not join each other: a REQUIRED call
\* made by a chain from outside any wrapped method finds no frame, whatever
\* transactions the other chains have open on the DataSource, and begins a
\* transaction of its own whose frame its body sees; its saves go through
\* its own manager; and its transaction ends by its own body's outcome
\* alone, committed when the body returned and rolled back when it threw,
\* whatever became of the other chains' transactions.
C28_InterleavedCallsIndependent ==
  \A j \in Invs :
    (inv[j].parent = 0 /\ inv[j].propagation = "REQUIRED")
    => /\ inv[j].mode = "new"
       /\ inv[j].existing = NoContextData
       /\ inv[j].pc = "body" => FrameIn(inv[j].ctx, inv[j].ds) = ContextData(j, inv[j].ds)
       /\ \A w \in writes : w.by = j => w.via = j
       /\ \A w \in writes : w.via = j => w.chain = inv[j].chain
       /\ Settled(j)
            => txs[j].state =
                 IF inv[j].body.kind = "ok" THEN "committed" ELSE "rolledback"

\* Two chains have each a transaction open on the DataSource with a save in
\* it; the body of the first has thrown and its rollback is due, the body of
\* the second has returned and its commit is due.
C28_Witness ==
  \E i, j \in Invs :
    /\ inv[i].chain # inv[j].chain /\ i < j
    /\ inv[i].parent = 0 /\ inv[j].parent = 0
    /\ inv[i].ds = inv[j].ds
    /\ inv[j].propagation = "REQUIRED"
    /\ txs[i].state = "open" /\ inv[i].pc = "rollback"
    /\ txs[j].state = "open" /\ inv[j].pc = "commit"
    /\ \E w \in writes : w.by = i /\ w.via = i
    /\ \E w \in writes : w.by = j /\ w.via = j

----------------------------------------------------------------------------
\* The invocations that activated a frame for ds and in whose bodies,
\* directly or not, invocation k was called.
FramesAround(k, ds) ==
  {a \in Invs : Under(k, a) /\ inv[a].ds = ds /\ inv[a].mode = "new"}

\* The innermost of them.
FrameAround(k, ds) ==
  CHOOSE a \in FramesAround(k, ds) : \A b \in FramesAround(k, ds) : b <= a

\* C29 - Cross-resource nesting: a REQUIRED call bound to one DataSource,
\* made by the body of an invocation bound to another inside a transaction
\* on that other DataSource and with no frame around it for its own, finds
\* no frame and takes the 'start new' path: it begins one transaction on its
\* own DataSource, ended when it has settled; and the frame of the caller's
\* DataSource is the enclosing transaction's in the call's body as in the
\* caller's, before, during and after the call.
C29_CrossResourceNesting ==
  \A k \in Invs :
    LET o == inv[k].parent IN
    (/\ o # 0
     /\ inv[k].propagation = "REQUIRED"
     /\ inv[k].ds # inv[o].ds
     /\ FramesAround(k, inv[k].ds) = {}
     /\ FramesAround(k, inv[o].ds) # {})
    => LET A == inv[o].ds
           frame == ContextData(FrameAround(k, A), A)
       IN  /\ inv[k].mode = "new"
           /\ inv[k].existing = NoContextData
           /\ inv[k].pc # "begin" => (txs[k].state # "none" /\ txs[k].ds = inv[k].ds)
           /\ Settled(k) => Ended(k)
           /\ \A w \in writes : (w.by = k /\ w.ds = inv[k].ds) => w.via = k
           /\ FrameIn(inv[k].ctx, A) = frame
           /\ FrameIn(inv[o].ctx, A) = frame
           /\ inv[k].pc # "begin"
                => FrameIn(inv[k].ctx, inv[k].ds) = ContextData(k, inv[k].ds)
           /\ FrameIn(inv[o].ctx, inv[k].ds) = NoContextData

\* The body of a transaction on one DataSource called a REQUIRED method of
\* a service on the other, which saved in a transaction of its own, has
\* committed and returned; the caller's body goes on in its transaction.
C29_Witness ==
  \E k \in Invs :
    /\ inv[k].parent # 0
    /\ inv[k].propagation = "REQUIRED"
    /\ inv[k].ds # inv[inv[k].parent].ds
    /\ inv[inv[k].parent].mode = "new"
    /\ inv[k].pc = "done"
    /\ txs[k].state = "committed" /\ txs[k].ds = inv[k].ds
    /\ \E w \in writes : w.by = k /\ w.via = k /\ w.ds = inv[k].ds
    /\ inv[inv[k].parent].pc = "body"
    /\ txs[inv[k].parent].state = "open"
    /\ ResolvedTx(inv[k].chain, inv[inv[k].parent].ds) = inv[k].parent
    /\ ResolvedTx(inv[k].chain, inv[k].ds) = 0

----------------------------------------------------------------------------
\* C30 - A REQUIRED call joins the innermost active frame: a REQUIRED call
\* made by the body of a REQUIRES_NEW invocation that is itself nested in a
\* transaction begins no transaction and takes as its manager the
\* REQUIRES_NEW transaction's, not the outer one's; its saves go through
\* that manager and are in storage exactly when the REQUIRES_NEW transaction
\* has committed, whatever becomes of the outer one.
C30_JoinsInnermostFrame ==
  \A j \in Invs :
    LET k == inv[j].parent IN
    (/\ k # 0
     /\ inv[j].propagation = "REQUIRED"
     /\ inv[j].ds = inv[k].ds
     /\ inv[k].propagation = "REQUIRES_NEW"
     /\ inv[k].parent # 0
     /\ FramesAround(k, inv[k].ds) # {})
    => /\ inv[k].mode = "new"
       /\ inv[j].mode = "join"
       /\ txs[j] = NoTx
       /\ inv[j].existing = ContextData(k, inv[k].ds)
       /\ Enclosing(j) # FrameAround(k, inv[k].ds)
       /\ FrameIn(inv[j].ctx, inv[j].ds) = ContextData(k, inv[k].ds)
       /\ \A w \in writes :
            (w.by = j /\ w.ds = inv[j].ds)
            => /\ w.via = k
               /\ w \in Committed <=> txs[k].state = "committed"

\* createUserWithRequiresNew -> createUser inside an outer transaction: the
\* REQUIRED call saved through the REQUIRES_NEW transaction, which has
\* committed, and the outer transaction has rolled back.
C30_Witness ==
  \E j \in Invs :
    LET k == inv[j].parent IN
    /\ k # 0 /\ inv[k].parent # 0
    /\ inv[j].propagation = "REQUIRED"
    /\ inv[k].propagation = "REQUIRES_NEW"
    /\ inv[inv[k].parent].mode = "new"
    /\ inv[j].mode = "join" /\ inv[j].pc = "done"
    /\ \E w \in writes : w.by = j /\ w.via = k /\ w \in Committed
    /\ txs[k].state = "committed"
    /\ txs[inv[k].parent].state = "rolledback"

----------------------------------------------------------------------------
\* The asynchronous contexts there are: each chain's root context and the
\* context of each invocation.
Contexts == {rootCtx[c] : c \in app.chains} \cup {inv[i].ctx : i \in Invs}

\* The join test with the comparison of dataSources spelled out.
JoinWithSameDataSource(existingContext, ds, propagation) ==
  /\ existingContext # NoContextData
  /\ existingContext.dataSource = ds
  /\ propagation # "REQUIRES_NEW"

\* C31 - The join test of line 88 is the test that also compares the
\* dataSources: in every state the frame that any context holds in the store
\* of a DataSource has that DataSource and the manager of a 'start new'
\* invocation on it; the frame a wrapper call read was one of its own
\* dataSource; and the invocations that joined are exactly those for which
\* the frame read was present, of the same dataSource, and the propagation
\* not REQUIRES_NEW.
C31_JoinConditionEquivalent ==
  /\ \A ctx \in Contexts : \A ds \in DataSources :
        FrameIn(ctx, ds) # NoContextData
          => /\ FrameIn(ctx, ds).dataSource = ds
             /\ FrameIn(ctx, ds).manager \in Invs
             /\ inv[FrameIn(ctx, ds).manager].ds = ds
             /\ inv[FrameIn(ctx, ds).manager].mode = "new"
  /\ \A i \in Invs :
        inv[i].mode \in {"new", "join"}
          => /\ inv[i].existing # NoContextData
                  => inv[i].existing.dataSource = inv[i].ds
             /\ ShouldJoin(inv[i].existing, inv[i].propagation)
                  <=> JoinWithSameDataSource(inv[i].existing, inv[i].ds,
                                             inv[i].propagation)
             /\ inv[i].mode = "join"
                  <=> JoinWithSameDataSource(inv[i].existing, inv[i].ds,
                                             inv[i].propagation)

\* Inside a transaction on one DataSource a REQUIRED call on the other found
\* no frame of its own DataSource, did not join and began its transaction:
\* the context of its body holds a frame in both stores.
C31_Witness ==
  \E k \in Invs :
    /\ inv[k].mode = "new" /\ inv[k].pc = "body"
    /\ inv[k].propagation = "REQUIRED"
    /\ inv[k].parent # 0
    /\ inv[k].ds # inv[inv[k].parent].ds
    /\ inv[k].existing = NoContextData
    /\ \A ds \in DataSources : FrameIn(inv[k].ctx, ds) # NoContextData
    /\ FrameIn(inv[k].ctx, inv[k].ds).manager = k
    /\ FrameIn(inv[k].ctx, inv[inv[k].parent].ds).manager = inv[k].parent

----------------------------------------------------------------------------
\* C32 - Frames are immutable: the frame that the body of a 'start new'
\* invocation runs in holds that invocation's manager and dataSource, at
\* every step from its activation on; the frame a nested activation creates
\* is another one; and the frame of the caller of a nested invocation is, at
\* every moment of the call and after it, the frame that was current when
\* the call was made, so that the caller resolves the same manager when the
\* nested activation has exited as before it.
C32_FramesImmutable ==
  /\ [](\A i \in Invs :
          /\ (inv[i].mode = "new" /\ inv[i].pc # "begin")
               => FrameIn(inv[i].ctx, inv[i].ds) = ContextData(i, inv[i].ds)
          /\ inv[i].parent # 0
               => /\ FrameIn(inv[inv[i].parent].ctx, inv[i].ds) = inv[i].existing
                  /\ ContextData(i, inv[i].ds) # inv[i].existing)
  /\ [][\A i \in Invs :
          /\ inv[i].pc # "begin"
               => FrameIn(inv'[i].ctx, inv[i].ds) = FrameIn(inv[i].ctx, inv[i].ds)
          /\ (inv[i].pc = "return" /\ inv'[i].pc = "done" /\ inv[i].parent # 0)
               => getManager(transactionContexts', inv'[inv[i].parent].ctx, inv[i].ds)
                    = Manager(inv[i].ds, inv[i].existing.manager)]_vars

\* A REQUIRES_NEW activation nested in a transaction has saved, committed
\* and exited: the enclosing body, which saved before, is running again
\* and resolves its own transaction's manager.
C32_Witness ==
  \E o \in Invs : \E k \in Invs :
    /\ inv[k].parent = o /\ inv[k].propagation = "REQUIRES_NEW"
    /\ inv[o].mode = "new" /\ inv[k].mode = "new"
    /\ inv[k].pc = "done" /\ txs[k].state = "committed"
    /\ inv[o].pc = "body" /\ txs[o].state = "open"
    /\ Top(inv[o].chain) = o
    /\ ResolvedTx(inv[o].chain, inv[o].ds) = o
    /\ \E w \in writes : w.by = k /\ w.via = k
    /\ \E w \in writes : w.by = o /\ w.via = o

----------------------------------------------------------------------------
\* C33 - The transaction is begun at the negotiated level: the transaction
\* of a 'start new' invocation was started with the level that
\* getSupportedIsolationLevel gives for its dataSource and the isolation of
\* its options, and with none when that gives none; on sqlite it is never
\* started with a requested level that sqlite does not support; and only the
\* transaction of a 'start new' invocation has a level at all.
C33_BegunAtNegotiatedLevel ==
  \A i \in Invs :
    /\ (inv[i].mode = "new" /\ txs[i].state # "none")
         => /\ txs[i].isolation
                 = getSupportedIsolationLevel(inv[i].ds, inv[i].isolation)
            /\ inv[i].isolation = NoLevel => txs[i].isolation = NoLevel
            /\ DbType(inv[i].ds) = "sqlite"
                 => txs[i].isolation \notin {"READ COMMITTED", "REPEATABLE READ"}
    /\ inv[i].mode # "new" => txs[i].isolation = NoLevel

\* On sqlite the body of a method declared REPEATABLE READ runs in a
\* transaction that was started SERIALIZABLE.
C33_Witness ==
  \E i \in Invs :
    /\ DbType(inv[i].ds) = "sqlite"
    /\ inv[i].mode = "new" /\ inv[i].pc = "body"
    /\ inv[i].isolation = "REPEATABLE READ"
    /\ txs[i].state = "open"
    /\ txs[i].isolation = "SERIALIZABLE"
    /\ txs[i].isolation # inv[i].isolation

----------------------------------------------------------------------------
\* C34 - Isolation options of a joined call have no effect: a REQUIRED call
\* that found a frame, whatever isolation its options declare, negotiated no
\* level and began no transaction; the transaction it runs in, through which
\* its saves go, has the level negotiated from the options of the
\* invocation that began it; and no step changes the level of a transaction
\* once it has begun.
C34_JoinIgnoresIsolation ==
  /\ [](\A i \in Invs :
          (inv[i].propagation = "REQUIRED" /\ inv[i].existing # NoContextData)
          => /\ inv[i].isolationLevel = NoLevel
             /\ txs[i] = NoTx
             /\ txs[Enclosing(i)].isolation
                  = getSupportedIsolationLevel(inv[Enclosing(i)].ds,
                                               inv[Enclosing(i)].isolation)
             /\ \A w \in writes :
                  w.by = i => (w.via = Enclosing(i) /\ w.via # i))
  /\ [][\A k \in Invs :
          txs[k].state # "none" => txs'[k].isolation = txs[k].isolation]_vars

\* A method declared SERIALIZABLE was called inside a transaction started
\* READ UNCOMMITTED: it joined, saved and returned, and the transaction is
\* still a READ UNCOMMITTED one.
C34_Witness ==
  \E i \in Invs :
    /\ inv[i].mode = "join" /\ inv[i].pc = "done"
    /\ inv[i].isolation = "SERIALIZABLE"
    /\ inv[Enclosing(i)].isolation = "READ UNCOMMITTED"
    /\ txs[Enclosing(i)].isolation = "READ UNCOMMITTED"
    /\ txs[Enclosing(i)].state = "open"
    /\ \E w \in writes : w.by = i /\ w.via = Enclosing(i)

----------------------------------------------------------------------------
\* C35 - When starting the transaction of a 'start new' invocation fails,
\* its body is never executed and no frame is activated for it: the
\* invocation settles with the error of the start, without an outcome of a
\* body, without saves or calls made by a body, its transaction never open;
\* and no context ever holds a frame with its manager.
C35_BeginFailureSkipsBody ==
  \A i \in Invs :
    "begin" \in txs[i].failed
    => /\ inv[i].mode = "new"
       /\ inv[i].pc \in {"return", "done"}
       /\ inv[i].body = NoOutcome
       /\ inv[i].result = BackendError(i, "begin")
       /\ txs[i].state = "failed"
       /\ inv[i].tx = 0
       /\ \A w \in writes : w.by # i /\ w.via # i
       /\ \A k \in Invs : inv[k].parent # i
       /\ \A ctx \in Contexts : \A ds \in DataSources :
            FrameIn(ctx, ds).manager # i
       /\ FrameIn(inv[i].ctx, inv[i].ds) = inv[i].existing

\* A REQUIRES_NEW call made inside a transaction could not start its own:
\* it returned the error to its caller, whose body goes on inside its own
\* frame and then saves.
C35_Witness ==
  \E i \in Invs :
    /\ "begin" \in txs[i].failed
    /\ inv[i].parent # 0
    /\ inv[i].pc = "done"
    /\ inv[i].body = NoOutcome
    /\ inv[inv[i].parent].pc = "body"
    /\ ResolvedTx(inv[i].chain, inv[i].ds) = inv[i].parent
    /\ \E w \in writes : w.by = inv[i].parent /\ w.via = inv[i].parent

----------------------------------------------------------------------------
\* The 'start new' invocations on the call stack of chain c, and the
\* transactions of the chain that are open.
StartNewOnStack(c) ==
  {stack[c][n] : n \in 1 .. Len(stack[c])} \cap {i \in Invs : inv[i].mode = "new"}

OpenTransactions(c) ==
  {i \in Invs : inv[i].chain = c /\ txs[i].state = "open"}

\* The transaction of a 'start new' invocation lies within the transactions
\* of the 'start new' invocations it is nested in: those are open while it
\* is open, and it has ended when one of them has ended.
WellNested ==
  \A k \in Invs : \A o \in Invs :
    (Under(k, o) /\ inv[k].mode = "new" /\ inv[o].mode = "new")
    => /\ txs[k].state = "open" => txs[o].state = "open"
       /\ Ended(o) => Ended(k)
       /\ txs[k].state # "none" => txs[o].state # "none"

\* C36 as stated - transactions are well nested, and in every state the
\* open transactions of a chain are as many as the 'start new' invocations
\* on its call stack.
C36_OpenEqualsStackAsStated ==
  /\ WellNested
  /\ \A c \in app.chains :
        Cardinality(OpenTransactions(c)) = Cardinality(StartNewOnStack(c))

\* C36 - Properly nested transaction lifetimes: transactions are well
\* nested; the open transactions of a chain are those of the 'start new'
\* invocations on its call stack that have started theirs and not yet ended
\* it (one that is still starting its transaction, or has ended it and not
\* yet returned, is on the stack without an open transaction); and wherever
\* user code of the chain runs they are exactly the 'start new' invocations
\* on the stack.
C36_WellNestedLifetimes ==
  /\ WellNested
  /\ \A c \in app.chains :
        /\ OpenTransactions(c)
             = {i \in StartNewOnStack(c) : inv[i].pc \in {"body", "commit", "rollback"}}
        /\ InUserCode(c) => OpenTransactions(c) = StartNewOnStack(c)
        /\ InUserCode(c)
             => Cardinality(OpenTransactions(c)) = Cardinality(StartNewOnStack(c))

\* Two REQUIRES_NEW calls were nested in a transaction: the innermost
\* transaction has committed and the middle one has rolled back, both
\* before the outermost, whose commit is due and which is the one open
\* transaction of the one 'start new' invocation on the stack.
C36_Witness ==
  \E o \in Invs : \E k \in Invs : \E m \in Invs :
    /\ inv[o].parent = 0 /\ inv[k].parent = o /\ inv[m].parent = k
    /\ inv[k].propagation = "REQUIRES_NEW" /\ inv[m].propagation = "REQUIRES_NEW"
    /\ txs[m].state = "committed" /\ txs[k].state = "rolledback"
    /\ txs[o].state = "open" /\ inv[o].pc = "commit"
    /\ OpenTransactions(inv[o].chain) = {o}
    /\ StartNewOnStack(inv[o].chain) = {o}

----------------------------------------------------------------------------
(* The signup endpoint *)

\* Faulty variant: the handler answers 201 whatever the service did.
SignupControllerAlwaysCreated(outcome) ==
  [status |-> 201, success |-> TRUE, message |-> "none"]

\* SignupController.signup for a request with its three fields, from the
\* await of signupService.signup on: 201 with success when it resolved, 500
\* with error.message when it rejected.
SignupController_signup(outcome) ==
  IF outcome.kind = "ok"
  THEN [status |-> 201, success |-> TRUE, message |-> "none"]
  ELSE [status |-> 500, success |-> FALSE, message |-> outcome.val]

\* The responses sent so far to the request that invocation i of
\* SignupService.signup serves: none while the handler awaits.
Responses(i) ==
  IF inv[i].pc = "done" THEN {SignupController_signup(inv[i].result)} ELSE {}

\* One chain per request; every method is declared @Transactional() without
\* options, as those of SignupService, OrganizationService and UserService.
InitSignup ==
  /\ Start
  /\ app = [chains |-> {"c1"}, services |-> {"dsA"},
            options |-> [propagation : {NoPropagation}, isolation : {NoLevel}],
            plainSaves |-> {}, backend |-> {"ok"}, errors |-> {"error"},
            detached |-> FALSE,
            invocations |-> MaxInvocations]

SpecSignup == InitSignup /\ [][Next]_vars

=============================================================================
